---------------------------- MODULE Spec2Model ----------------------------
(***************************************************************************)
(* Model of script-copilot.                                                *)
(*                                                                         *)
(*   - the execute endpoint of the backend (handleExecuteScript), one      *)
(*     process per HTTP request, interleaved at the granularity of the     *)
(*     system calls the handler makes;                                     *)
(*   - the TerminalEmulator component: its React state and the event       *)
(*     handlers that change it.                                            *)
(*                                                                         *)
(* Text is a sequence of strings.  In the backend a text is a sequence of  *)
(* chunks (what one write produced); in the terminal it is a sequence of   *)
(* one-character strings, so that trim, split, startsWith and toLowerCase  *)
(* are computed as JavaScript computes them.                               *)
(***************************************************************************)
EXTENDS Integers, Sequences, FiniteSets, TLC

VARIABLES
    (* ---- backend: src/script-copilot/backend/main.go and the second ---- *)
    (* ---- copy of it at src/script-copilot/frontend/src/App.tsx:63   ---- *)
    build,      \* which of the two copies of the server is running
    pc,         \* per request: where the handler is
    req,        \* per request: the request body
    tmpfile,    \* per request: tmpfile.Name(), or NoFile
    handle,     \* per request: is the *os.File still open
    fs,         \* the temporary directory: name -> file or NoFile
    child,      \* per request: the bash child process
    resp,       \* per request: the response written by c.JSON, or NoResp
    sent,       \* per request: how many times c.JSON was called
    (* ---- terminal: src/unnamed/part_000 (TerminalEmulator) ---- *)
    lines,              \* the transcript: records [content, type]
    currentInput,       \* the text of the input element
    history,            \* the command history array, as stored
    historyIndex,       \* -1, or an index (from 0) into history
    workingDirectory,   \* the simulated directory
    terminalHistory,    \* localStorage item 'terminalHistory', or NoItem
    submissions,        \* how many non-empty lines were submitted (bounds the model)
    executed            \* the commands onExecute was called with, in call order

execVars == <<build, pc, req, tmpfile, handle, fs, child, resp, sent>>

termVars == <<lines, currentInput, history, historyIndex, workingDirectory,
              terminalHistory, submissions, executed>>

vars == <<build, pc, req, tmpfile, handle, fs, child, resp, sent,
          lines, currentInput, history, historyIndex, workingDirectory,
          terminalHistory, submissions, executed>>

-----------------------------------------------------------------------------
(* Bounds of the backend model *)

NumRequests == 2
NumNames == 2

Requests == 1..NumRequests
TempNames == 1..NumNames

-----------------------------------------------------------------------------
(* Program constants *)

StatusOK == 200
StatusBadRequest == 400
StatusInternalServerError == 500
ModeCreated == 384      \* 0600, the mode os.CreateTemp creates the file with
ModeExecutable == 493   \* 0755

Builds == {"gemini", "anthropic"}

NoFile == [exists |-> FALSE, content |-> <<>>, mode |-> 0]
NoName == 0
NoBody == [f \in {} |-> <<>>]
NoResp == [status |-> 0, body |-> NoBody]
NoChild == [state |-> "none", ran |-> <<>>, stdout |-> <<>>, stderr |-> <<>>,
            exit |-> "none"]

-----------------------------------------------------------------------------
(* Request bodies.  A body is malformed JSON, or an object whose "script"  *)
(* member is missing, or an object with a script text.                     *)

Malformed == [json |-> FALSE, has |-> FALSE, script |-> <<>>]
NoScript == [json |-> TRUE, has |-> FALSE, script |-> <<>>]
WithScript(s) == [json |-> TRUE, has |-> TRUE, script |-> s]

(* What bash does with a script text: the chunks it writes to each stream  *)
(* and how it terminates.                                                  *)
ScriptWarn == <<"echo out; ", "echo warn >&2">>
ScriptFail == <<"echo out; ", "echo err >&2; ", "exit 1">>
ScriptKill == <<"echo out; ", "kill -9 $$">>

Scripts == {ScriptWarn, ScriptFail, ScriptKill}

Bodies == {Malformed, NoScript, WithScript(<<>>)} \cup {WithScript(s) : s \in Scripts}

(* what bash is given when the path names no file *)
NoSuchFile == <<"<no such file>">>

Bash(text) ==
    CASE text = ScriptWarn -> [stdout |-> <<"out\n">>, stderr |-> <<"warn\n">>, exit |-> "exit status 0"]
      [] text = ScriptFail -> [stdout |-> <<"out\n">>, stderr |-> <<"err\n">>, exit |-> "exit status 1"]
      [] text = ScriptKill -> [stdout |-> <<"out\n">>, stderr |-> <<>>, exit |-> "signal: killed"]
      [] text = NoSuchFile -> [stdout |-> <<>>, stderr |-> <<"bash: No such file or directory\n">>,
                               exit |-> "exit status 127"]
      [] OTHER             -> [stdout |-> <<>>, stderr |-> <<>>, exit |-> "exit status 0"]

-----------------------------------------------------------------------------
(* encoding/json of ExecuteScriptResponse: Output and Error are tagged     *)
(* omitempty, so an empty text leaves the member out of the object.  A     *)
(* JSON object is a function from the names of its members to their text.  *)

ExecuteScriptResponse(success, output, error) ==
    LET present == {"success"}
                   \cup (IF output # <<>> THEN {"output"} ELSE {})
                   \cup (IF error # <<>> THEN {"error"} ELSE {})
    IN  [f \in present |->
            CASE f = "success" -> IF success THEN <<"true">> ELSE <<"false">>
              [] f = "output"  -> output
              [] f = "error"   -> error]

(* gin.H{"error": msg} *)
ginH(msg) == [f \in {"error"} |-> <<msg>>]

(* member m of a decoded object: the zero value when it is left out *)
Member(body, m) == IF m \in DOMAIN body THEN body[m] ELSE <<>>

ShouldBindJSON_NotRequired(body) == body.json

(* binding:"required" of ShouldBindJSON: the body parses and the script   *)
(* member is present and is not the zero value                            *)
ShouldBindJSON(body) == body.json /\ body.has /\ body.script # <<>>

CreateTempNames_NoExcl == TempNames

(* os.CreateTemp opens with O_EXCL: only a name no file has can be chosen *)
CreateTempNames == {n \in TempNames : ~fs[n].exists}

Remove_Nothing(name) == fs

(* os.Remove *)
Remove(name) == [fs EXCEPT ![name] = NoFile]

Deferred_AfterChmod(r) ==
    /\ tmpfile[r] # NoName
    /\ fs[tmpfile[r]].mode = ModeExecutable

(* defer os.Remove(tmpfile.Name()) is registered as soon as the file      *)
(* exists, before any later step can fail                                 *)
Deferred(r) == tmpfile[r] # NoName

(* the response of a run that returned an error: the current server       *)
(* includes stdout, the second copy leaves it out                         *)
RunFailedResponse(b, err, stdout, stderr) ==
    IF b = "gemini"
    THEN ExecuteScriptResponse(FALSE, stdout,
                               <<"Script execution failed: ", err, "\n">> \o stderr)
    ELSE ExecuteScriptResponse(FALSE, <<>>,
                               <<"Error executing script: ", err, "\n">> \o stderr)

RunOkResponse_WithError(stdout) ==
    ExecuteScriptResponse(TRUE, stdout, <<"Script execution failed: ">>)

RunOkResponse(stdout) == ExecuteScriptResponse(TRUE, stdout, <<>>)


-----------------------------------------------------------------------------
(* JavaScript string and array operations, on sequences of characters *)

Min(a, b) == IF a < b THEN a ELSE b

IsSpace(c) == c \in {" ", "\t", "\n"}

RECURSIVE TrimStart(_)
TrimStart(s) ==
    IF s # <<>> /\ IsSpace(Head(s)) THEN TrimStart(Tail(s)) ELSE s

RECURSIVE TrimEnd(_)
TrimEnd(s) ==
    IF s # <<>> /\ IsSpace(s[Len(s)]) THEN TrimEnd(SubSeq(s, 1, Len(s) - 1)) ELSE s

(* String.prototype.trim *)
Trim_Nothing(s) == s

Trim(s) == TrimEnd(TrimStart(s))

(* String.prototype.split(' '): cut at every single space; two spaces in  *)
(* a row give an empty piece                                              *)
RECURSIVE Split(_)
Split(s) ==
    IF \E i \in 1..Len(s) : s[i] = " "
    THEN LET i == CHOOSE k \in 1..Len(s) :
                      s[k] = " " /\ \A j \in 1..(k - 1) : s[j] # " "
         IN  <<SubSeq(s, 1, i - 1)>> \o Split(SubSeq(s, i + 1, Len(s)))
    ELSE <<s>>

LowerChar(c) ==
    CASE c = "A" -> "a" [] c = "C" -> "c" [] c = "D" -> "d" [] c = "E" -> "e"
      [] c = "H" -> "h" [] c = "I" -> "i" [] c = "L" -> "l" [] c = "O" -> "o"
      [] c = "P" -> "p" [] c = "R" -> "r" [] c = "S" -> "s" [] c = "T" -> "t"
      [] c = "W" -> "w" [] c = "Y" -> "y" [] OTHER -> c

ToLowerCase_Same(s) == s

(* String.prototype.toLowerCase *)
ToLowerCase(s) == [i \in 1..Len(s) |-> LowerChar(s[i])]

(* String.prototype.startsWith *)
StartsWith(s, prefix) ==
    Len(prefix) <= Len(s) /\ SubSeq(s, 1, Len(prefix)) = prefix

(* Array.prototype.reverse (the result; the array itself is reversed too) *)
Reverse(a) == [i \in 1..Len(a) |-> a[Len(a) + 1 - i]]

(* Array.prototype.join *)
RECURSIVE Join(_, _)
Join(a, sep) ==
    IF a = <<>> THEN <<>>
    ELSE IF Len(a) = 1 THEN a[1]
    ELSE a[1] \o sep \o Join(Tail(a), sep)

(* Array.prototype.slice(0, n) *)
Slice0(a, n) == SubSeq(a, 1, Min(n, Len(a)))

EscapeChar_Plain(c) == <<c>>

(* JSON.stringify of an array of strings *)
EscapeChar(c) == IF c \in {"\"", "\\"} THEN <<"\\", c>> ELSE <<c>>

RECURSIVE Escape(_)
Escape(s) == IF s = <<>> THEN <<>> ELSE EscapeChar(Head(s)) \o Escape(Tail(s))

JSONStringify(a) ==
    <<"[">> \o Join([i \in 1..Len(a) |-> <<"\"">> \o Escape(a[i]) \o <<"\"">>], <<",">>)
            \o <<"]">>

(* JSON.parse of such a text.  A quote ends or begins a string when the   *)
(* run of backslashes before it is of even length; the strings are what   *)
(* lies between the first and the second such quote, the third and the    *)
(* fourth, and so on, with the escapes taken out.                         *)
RECURSIVE BackslashRun(_, _)
BackslashRun(t, i) == IF i = 0 \/ t[i] # "\\" THEN 0 ELSE 1 + BackslashRun(t, i - 1)

Quotes(t) == {i \in 1..Len(t) : t[i] = "\"" /\ BackslashRun(t, i - 1) % 2 = 0}

RECURSIVE Unescape(_)
Unescape(s) ==
    IF s = <<>> THEN <<>>
    ELSE IF Head(s) = "\\" /\ Len(s) > 1
         THEN <<s[2]>> \o Unescape(Tail(Tail(s)))
         ELSE <<Head(s)>> \o Unescape(Tail(s))

(* the k-th smallest member of a set of numbers *)
Nth(S, k) == CHOOSE p \in S : Cardinality({q \in S : q < p}) = k - 1

JSONParse(t) ==
    LET Q == Quotes(t)
    IN  [k \in 1..(Cardinality(Q) \div 2) |->
            Unescape(SubSeq(t, Nth(Q, 2 * k - 1) + 1, Nth(Q, 2 * k) - 1))]

-----------------------------------------------------------------------------
(* TerminalEmulator *)

HISTORY_LIMIT == 50

NoItem == <<>>

InputLine(content) == [content |-> content, type |-> "input"]
OutputLine(content) == [content |-> content, type |-> "output"]

PromptLine == InputLine(<<"$ ">>)
WelcomeLine ==
    OutputLine(<<"Welcome to Script Generator Terminal. Type \"help\" for available commands.">>)

CLEAR == <<"c", "l", "e", "a", "r">>
HELP == <<"h", "e", "l", "p">>
PWD == <<"p", "w", "d">>
CD == <<"c", "d">>
HISTORY == <<"h", "i", "s", "t", "o", "r", "y">>

builtInCommands_NoPwd == <<CLEAR, HELP, CD, HISTORY>>

(* the names of builtInCommands, in table order *)
builtInCommands == <<CLEAR, HELP, PWD, CD, HISTORY>>

HelpText_Empty == <<>>

HelpText ==
    <<"Available commands:\n  clear - Clear the terminal screen\n  help  - Show this help message\n  pwd   - Print working directory\n  cd    - Change directory (simulation)\n  history - Show command history">>

Tilde_Root == <<"/">>

Tilde == <<"~">>

(* builtInCommands.find(pred): the first name of the table in pred, or    *)
(* the empty text when there is none (undefined)                          *)
Find(pred) ==
    IF \E i \in 1..Len(builtInCommands) : builtInCommands[i] \in pred
    THEN builtInCommands[CHOOSE i \in 1..Len(builtInCommands) :
             /\ builtInCommands[i] \in pred
             /\ \A j \in 1..(i - 1) : builtInCommands[j] \notin pred]
    ELSE <<>>

(* useEffect on mount: the saved item, when there is one, becomes history *)
LoadHistory(item) == IF item # NoItem THEN JSONParse(item) ELSE <<>>

(* the state once the component has mounted and its effects have run:     *)
(* history loaded from localStorage and written back                      *)
TermStartFrom(item) ==
    /\ lines = <<WelcomeLine, PromptLine>>
    /\ currentInput = <<>>
    /\ history = LoadHistory(item)
    /\ historyIndex = 0 - 1
    /\ workingDirectory = Tilde
    /\ terminalHistory = JSONStringify(LoadHistory(item))
    /\ submissions = 0
    /\ executed = <<>>

TermStart == TermStartFrom(NoItem)

appendLine_InFront(prev, line) == <<line>> \o prev

(* the updater given to setLines: prev => [...prev, line] *)
appendLine(prev, line) == Append(prev, line)

(* executeCommand(command), called with the transcript updates queued so  *)
(* far applied to L.  Gives the transcript after its own updates, the     *)
(* working directory it sets, the history array as the call leaves it     *)
(* (history.reverse() reverses the array of the state in place) and the   *)
(* calls of onExecute it makes.  App passes an onExecute that adds the    *)
(* line `Executing: <command>` to the transcript.                         *)
executeCommand(command, L) ==
    LET tokens == Split(Trim(command))
        cmd == Head(tokens)
        args == Tail(tokens)
        builtInCommand == Find({cmd})
        output ==
            CASE builtInCommand = CLEAR   -> <<>>
              [] builtInCommand = HELP    -> HelpText
              [] builtInCommand = PWD     -> workingDirectory
              [] builtInCommand = CD      -> <<>>
              [] builtInCommand = HISTORY -> Join(Reverse(history), <<"\n">>)
              [] OTHER                    -> <<>>
        cleared == IF builtInCommand = CLEAR THEN <<PromptLine>> ELSE L
    IN  [lines |->
            IF builtInCommand # <<>>
            THEN IF output # <<>> THEN appendLine(cleared, OutputLine(output)) ELSE cleared
            ELSE appendLine(L, OutputLine(<<"Executing: ">> \o command \o <<"\n">>)),
         workingDirectory |->
            IF builtInCommand = CD
            THEN IF args # <<>> /\ Head(args) # <<>> THEN Head(args) ELSE Tilde
            ELSE workingDirectory,
         array |->
            IF builtInCommand = HISTORY THEN Reverse(history) ELSE history,
         calls |->
            IF builtInCommand # <<>> THEN <<>> ELSE <<command>>]

(* the updater given to setHistory: prev => [command, ...prev].slice(0, 50) *)
setHistoryUpdater(prev, command) == Slice0(<<command>> \o prev, HISTORY_LIMIT)

(* the arrays React can hand the updater as prev.  It runs the updater    *)
(* either at once, when setHistory is called (no update is pending on the *)
(* component), or at the next render, after the handler has finished: by  *)
(* then the `history` built-in has reversed the array in place.           *)
UpdaterPrev(array) == {history, array}

submitResets_KeepsCursor == [currentInput |-> <<>>, historyIndex |-> historyIndex]

(* what a submission sets the input and the cursor to:                    *)
(* setHistoryIndex(-1), setCurrentInput('')                               *)
submitResets == [currentInput |-> <<>>, historyIndex |-> 0 - 1]

(* handleKeyDown, e.key === 'Enter' *)
Enter ==
    LET command == Trim(currentInput)
        echoed == appendLine(lines, InputLine(workingDirectory \o <<" $ ">> \o currentInput))
        done == executeCommand(command, echoed)
    IN  /\ UNCHANGED execVars
        /\ IF command # <<>>
           THEN /\ \E prev \in UpdaterPrev(done.array) :
                      /\ history' = setHistoryUpdater(prev, command)
                      /\ terminalHistory' = JSONStringify(setHistoryUpdater(prev, command))
                /\ historyIndex' = submitResets.historyIndex
                /\ workingDirectory' = done.workingDirectory
                /\ currentInput' = submitResets.currentInput
                /\ lines' = appendLine(done.lines, PromptLine)
                /\ submissions' = submissions + 1
                /\ executed' = executed \o done.calls
           ELSE UNCHANGED termVars

onArrowUp_Wraps(index, input) ==
    IF index < Len(history) - 1
    THEN [historyIndex |-> index + 1, currentInput |-> history[(index + 1) + 1]]
    ELSE IF history # <<>>
         THEN [historyIndex |-> 0, currentInput |-> history[1]]
         ELSE [historyIndex |-> index, currentInput |-> input]

onArrowUp_PastEnd(index, input) ==
    IF index < Len(history)
    THEN [historyIndex |-> index + 1,
          currentInput |-> IF index + 2 <= Len(history) THEN history[index + 2] ELSE <<>>]
    ELSE [historyIndex |-> index, currentInput |-> input]

(* handleKeyDown, e.key === 'ArrowUp': what the handler sets, from the     *)
(* cursor and the input of the render it closes over                      *)
onArrowUp(index, input) ==
    IF index < Len(history) - 1
    THEN [historyIndex |-> index + 1, currentInput |-> history[(index + 1) + 1]]
    ELSE [historyIndex |-> index, currentInput |-> input]

ArrowUp ==
    /\ historyIndex' = onArrowUp(historyIndex, currentInput).historyIndex
    /\ currentInput' = onArrowUp(historyIndex, currentInput).currentInput
    /\ UNCHANGED <<lines, history, workingDirectory, terminalHistory, submissions,
                   executed>>
    /\ UNCHANGED execVars

onArrowDown_KeepsInput(index, input) ==
    IF index > 0
    THEN [historyIndex |-> index - 1, currentInput |-> history[(index - 1) + 1]]
    ELSE IF index = 0
         THEN [historyIndex |-> 0 - 1, currentInput |-> input]
         ELSE [historyIndex |-> index, currentInput |-> input]

(* handleKeyDown, e.key === 'ArrowDown': what the handler sets *)
onArrowDown(index, input) ==
    IF index > 0
    THEN [historyIndex |-> index - 1, currentInput |-> history[(index - 1) + 1]]
    ELSE IF index = 0
         THEN [historyIndex |-> 0 - 1, currentInput |-> <<>>]
         ELSE [historyIndex |-> index, currentInput |-> input]

ArrowDown ==
    /\ historyIndex' = onArrowDown(historyIndex, currentInput).historyIndex
    /\ currentInput' = onArrowDown(historyIndex, currentInput).currentInput
    /\ UNCHANGED <<lines, history, workingDirectory, terminalHistory, submissions,
                   executed>>
    /\ UNCHANGED execVars

(* handleKeyDown, e.key === 'Tab': the input the handler leaves *)
onTab(value) ==
    LET input == ToLowerCase(value)
        suggestion == Find({n \in {builtInCommands[i] : i \in 1..Len(builtInCommands)} :
                               StartsWith(n, input)})
    IN  IF suggestion # <<>> THEN suggestion ELSE value

Tab ==
        /\ currentInput' = onTab(currentInput)
        /\ UNCHANGED <<lines, history, historyIndex, workingDirectory, terminalHistory,
                       submissions, executed>>
        /\ UNCHANGED execVars

(* handleKeyDown, e.ctrlKey && e.key === 'l' *)
CtrlL ==
    /\ lines' = executeCommand(CLEAR, lines).lines
    /\ executed' = executed \o executeCommand(CLEAR, lines).calls
    /\ UNCHANGED <<currentInput, history, historyIndex, workingDirectory, terminalHistory,
                   submissions>>
    /\ UNCHANGED execVars

onChange_ResetsCursor(value) == [currentInput |-> value, historyIndex |-> 0 - 1]

(* onChange of the input element: what the handler sets *)
onChange(value) == [currentInput |-> value, historyIndex |-> historyIndex]

Change(value) ==
    /\ currentInput' = onChange(value).currentInput
    /\ historyIndex' = onChange(value).historyIndex
    /\ UNCHANGED <<lines, history, workingDirectory, terminalHistory, submissions,
                   executed>>
    /\ UNCHANGED execVars

addOutput_TakesInput(output, type) ==
    /\ lines' = appendLine(lines, [content |-> output, type |-> type])
    /\ currentInput' = <<>>
    /\ UNCHANGED <<history, historyIndex, workingDirectory, terminalHistory,
                   submissions, executed>>
    /\ UNCHANGED execVars

(* the ref's addOutput(output, type) *)
addOutput(output, type) ==
    /\ lines' = appendLine(lines, [content |-> output, type |-> type])
    /\ UNCHANGED <<currentInput, history, historyIndex, workingDirectory, terminalHistory,
                   submissions, executed>>
    /\ UNCHANGED execVars

clear_TakesInput ==
    /\ lines' = <<PromptLine>>
    /\ currentInput' = <<>>
    /\ UNCHANGED <<history, historyIndex, workingDirectory, terminalHistory,
                   submissions, executed>>
    /\ UNCHANGED execVars

(* the ref's clear() *)
clear ==
    /\ lines' = <<PromptLine>>
    /\ UNCHANGED <<currentInput, history, historyIndex, workingDirectory, terminalHistory,
                   submissions, executed>>
    /\ UNCHANGED execVars

(* the page is loaded again: a new session mounts over the saved item *)
Mount ==
    /\ lines' = <<WelcomeLine, PromptLine>>
    /\ currentInput' = <<>>
    /\ history' = LoadHistory(terminalHistory)
    /\ historyIndex' = 0 - 1
    /\ workingDirectory' = Tilde
    /\ terminalHistory' = JSONStringify(LoadHistory(terminalHistory))
    /\ UNCHANGED <<submissions, executed>>
    /\ UNCHANGED execVars

-----------------------------------------------------------------------------
(* The terminal session under a small set of typed lines *)

MaxLines == 5
MaxSubmissions == 3

LS == <<"l", "s">>

TermInputs == {LS, <<" ">> \o HISTORY \o <<" ">>, <<" ">>}

(* handleScriptExecution of App: what ScriptModal's run button injects *)
ScriptOutput == <<"Executing script:\n", "ls", "\n">>

(* the transcript has room for what a submission appends *)
Room == Len(lines) + 3 <= MaxLines

TypeLine == \E v \in TermInputs : Change(v)
Submit == submissions < MaxSubmissions /\ Room /\ Enter
Inject == Len(lines) < MaxLines /\ \E t \in {"output", "error"} : addOutput(ScriptOutput, t)

TermNext ==
    \/ TypeLine
    \/ Submit
    \/ ArrowUp
    \/ ArrowDown
    \/ Tab
    \/ CtrlL
    \/ Inject
    \/ clear
    \/ Mount

-----------------------------------------------------------------------------
(* The terminal session under lines that reach every built-in and the     *)
(* callback, and under prefixes of built-in names for the completion      *)

MaxShellSubmissions == 2

Tmp == <<"/", "t", "m", "p">>
Up == <<".", ".">>

(* the directories `cd` is given *)
Dirs == {Tmp, Up}

CdTo(d) == CD \o <<" ">> \o d

(* a line of two tokens that is no built-in, typed with blanks around it *)
LsL == <<" ", "l", "s", " ", "-", "l", " ">>

(* `clear` and `history` are reached by completing C and Hi *)
ShellInputs ==
    {HELP, PWD, CD, LsL, <<"C">>, <<"H", "i">>, <<" ">>} \cup {CdTo(d) : d \in Dirs}

ShellType == \E v \in ShellInputs : Change(v)
ShellSubmit == submissions < MaxShellSubmissions /\ Room /\ Enter

ShellNext ==
    \/ ShellType
    \/ ShellSubmit
    \/ ArrowUp
    \/ ArrowDown
    \/ Tab
    \/ CtrlL

-----------------------------------------------------------------------------
(* The terminal session under lines whose tokens are separated by one     *)
(* space, by two, and by a tab                                            *)

TokenInputs ==
    {CD \o <<" ">> \o Tmp, CD \o <<" ", " ">> \o Tmp, CD \o <<"\t">> \o Tmp,
     HELP \o <<" ", " ">> \o LS, PWD \o <<"\t">> \o LS, PWD \o <<"\t">>}

TokenType == \E v \in TokenInputs : Change(v)

TokenNext ==
    \/ TokenType
    \/ ShellSubmit
    \/ CtrlL

-----------------------------------------------------------------------------
(* The terminal session under a run of distinct commands: the k-th line    *)
(* typed is the k-th command of a fixed list, with or without blanks       *)
(* around it.  One of them is `history`.                                   *)

MaxHistSubmissions == 60
HistoryTurn == 3

DigitChar(d) ==
    CASE d = 0 -> "0" [] d = 1 -> "1" [] d = 2 -> "2" [] d = 3 -> "3" [] d = 4 -> "4"
      [] d = 5 -> "5" [] d = 6 -> "6" [] d = 7 -> "7" [] d = 8 -> "8" [] OTHER -> "9"

RECURSIVE Digits(_)
Digits(n) == IF n < 10 THEN <<DigitChar(n)>> ELSE Digits(n \div 10) \o <<DigitChar(n % 10)>>

(* the k-th command *)
Cmd(k) == IF k = HistoryTurn THEN HISTORY ELSE <<"r">> \o Digits(k)

HistInputs == {Cmd(submissions + 1), <<" ">> \o Cmd(submissions + 1) \o <<" ">>}

TypeNext == \E v \in HistInputs : Change(v)
SubmitNext == submissions < MaxHistSubmissions /\ Room /\ Enter

HistNext ==
    \/ TypeNext
    \/ SubmitNext
    \/ CtrlL

-----------------------------------------------------------------------------
(* The terminal session at the limit of the history: it starts with the   *)
(* command ls saved 49 times, and distinct commands are typed on top      *)

SavedHistory == [i \in 1..(HISTORY_LIMIT - 1) |-> LS]

CursorType == Change(Cmd(submissions + 1))
CursorSubmit == submissions < MaxSubmissions /\ Room /\ Enter
CursorInject == Len(lines) < MaxLines /\ addOutput(ScriptOutput, "output")

CursorNext ==
    \/ CursorType
    \/ CursorSubmit
    \/ ArrowUp
    \/ ArrowDown
    \/ CtrlL
    \/ CursorInject
    \/ clear

-----------------------------------------------------------------------------
(* The terminal over several sessions: commands that hold the characters  *)
(* JSON escapes or separates with, and the page loaded again at any time  *)

(* the k-th command: e "\,<k> *)
Quoted(k) == <<"e", " ", "\"", "\\", ",">> \o Digits(k)

PersistInputs == {Quoted(submissions + 1)}

PersistType == \E v \in PersistInputs : Change(v)

PersistNext ==
    \/ PersistType
    \/ SubmitNext
    \/ CtrlL
    \/ Mount

-----------------------------------------------------------------------------
(* handleExecuteScript, one step per call the handler makes.  Between two  *)
(* steps of one request the steps of the others interleave.                *)

ExecInitOf(b) ==
    /\ TermStart
    /\ build = b
    /\ pc = [r \in Requests |-> "idle"]
    /\ req = [r \in Requests |-> Malformed]
    /\ tmpfile = [r \in Requests |-> NoName]
    /\ handle = [r \in Requests |-> FALSE]
    /\ fs = [n \in TempNames |-> NoFile]
    /\ child = [r \in Requests |-> NoChild]
    /\ resp = [r \in Requests |-> NoResp]
    /\ sent = [r \in Requests |-> 0]

(* c.JSON(status, body) *)
JSON(r, status, body) ==
    /\ resp' = [resp EXCEPT ![r] = [status |-> status, body |-> body]]
    /\ sent' = [sent EXCEPT ![r] = @ + 1]

(* a request arrives at POST /execute-script *)
Receive(r) ==
    /\ pc[r] = "idle"
    /\ \E b \in Bodies : req' = [req EXCEPT ![r] = b]
    /\ pc' = [pc EXCEPT ![r] = "bind"]
    /\ UNCHANGED <<build, tmpfile, handle, fs, child, resp, sent>>
    /\ UNCHANGED termVars

(* c.ShouldBindJSON(&req): on error answer 400 and return; no defer is    *)
(* registered yet                                                         *)
Bind(r) ==
    /\ pc[r] = "bind"
    /\ IF ShouldBindJSON(req[r])
       THEN /\ pc' = [pc EXCEPT ![r] = "create"]
            /\ UNCHANGED <<resp, sent>>
       ELSE /\ JSON(r, StatusBadRequest, ginH("binding error"))
            /\ pc' = [pc EXCEPT ![r] = "return"]
    /\ UNCHANGED <<build, req, tmpfile, handle, fs, child>>
    /\ UNCHANGED termVars

(* os.CreateTemp("", "script-*.sh"): fails, or creates an empty file of   *)
(* mode 0600 under a name no existing file has and returns it open        *)
CreateTemp(r) ==
    /\ pc[r] = "create"
    /\ \/ /\ JSON(r, StatusInternalServerError, ginH("Failed to create temporary script file"))
          /\ pc' = [pc EXCEPT ![r] = "return"]
          /\ UNCHANGED <<tmpfile, handle, fs>>
       \/ \E n \in CreateTempNames :
          /\ fs' = [fs EXCEPT ![n] = [exists |-> TRUE, content |-> <<>>, mode |-> ModeCreated]]
          /\ tmpfile' = [tmpfile EXCEPT ![r] = n]
          /\ handle' = [handle EXCEPT ![r] = TRUE]
          /\ pc' = [pc EXCEPT ![r] = "write"]
          /\ UNCHANGED <<resp, sent>>
    /\ UNCHANGED <<build, req, child>>
    /\ UNCHANGED termVars

(* tmpfile.Write([]byte(req.Script)); on error the current server closes  *)
(* the handle before answering, the second copy does not                  *)
Write(r) ==
    /\ pc[r] = "write"
    /\ \/ /\ JSON(r, StatusInternalServerError, ginH("Failed to write script to file"))
          /\ handle' = [handle EXCEPT ![r] = IF build = "gemini" THEN FALSE ELSE @]
          /\ pc' = [pc EXCEPT ![r] = "return"]
          /\ UNCHANGED fs
       \/ /\ fs' = [fs EXCEPT ![tmpfile[r]].content = req[r].script]
          /\ pc' = [pc EXCEPT ![r] = "close"]
          /\ UNCHANGED <<handle, resp, sent>>
    /\ UNCHANGED <<build, req, tmpfile, child>>
    /\ UNCHANGED termVars

Close_LeavesOpen(r) ==
    /\ pc[r] = "close"
    /\ pc' = [pc EXCEPT ![r] = "chmod"]
    /\ UNCHANGED <<build, req, tmpfile, handle, fs, child, resp, sent>>
    /\ UNCHANGED termVars

(* tmpfile.Close(): the descriptor is released whether or not an error is *)
(* reported                                                               *)
Close(r) ==
    /\ pc[r] = "close"
    /\ handle' = [handle EXCEPT ![r] = FALSE]
    /\ \/ /\ JSON(r, StatusInternalServerError, ginH("Failed to close script file after writing"))
          /\ pc' = [pc EXCEPT ![r] = "return"]
       \/ /\ pc' = [pc EXCEPT ![r] = "chmod"]
          /\ UNCHANGED <<resp, sent>>
    /\ UNCHANGED <<build, req, tmpfile, fs, child>>
    /\ UNCHANGED termVars

(* os.Chmod(tmpfile.Name(), 0755) *)
Chmod(r) ==
    /\ pc[r] = "chmod"
    /\ \/ /\ JSON(r, StatusInternalServerError, ginH("Failed to make script executable"))
          /\ pc' = [pc EXCEPT ![r] = "return"]
          /\ UNCHANGED fs
       \/ /\ fs[tmpfile[r]].exists
          /\ fs' = [fs EXCEPT ![tmpfile[r]].mode = ModeExecutable]
          /\ pc' = [pc EXCEPT ![r] = "run"]
          /\ UNCHANGED <<resp, sent>>
    /\ UNCHANGED <<build, req, tmpfile, handle, child>>
    /\ UNCHANGED termVars

(* cmd.Run(), first half: exec.Command("bash", name) with stdout and      *)
(* stderr set to two buffers.  Starting the child can fail (bash is not   *)
(* on the PATH, fork fails); Run then returns the error and no child      *)
(* exists.  Otherwise bash opens the file the path names.                 *)
CmdStart(r) ==
    /\ pc[r] = "run"
    /\ \/ /\ child' = [child EXCEPT ![r].state = "nostart"]
          /\ JSON(r, StatusOK,
                  RunFailedResponse(build, "exec: \"bash\": executable file not found in $PATH",
                                    <<>>, <<>>))
          /\ pc' = [pc EXCEPT ![r] = "return"]
       \/ /\ child' = [child EXCEPT ![r] =
                 [NoChild EXCEPT !.state = "running",
                                 !.ran = IF fs[tmpfile[r]].exists
                                         THEN fs[tmpfile[r]].content
                                         ELSE NoSuchFile]]
          /\ pc' = [pc EXCEPT ![r] = "wait"]
          /\ UNCHANGED <<resp, sent>>
    /\ UNCHANGED <<build, req, tmpfile, handle, fs>>
    /\ UNCHANGED termVars

(* the child runs to its end: what it wrote is in the two buffers *)
ChildExit(r) ==
    /\ child[r].state = "running"
    /\ child' = [child EXCEPT ![r] =
           [state |-> "exited", ran |-> @.ran, stdout |-> Bash(@.ran).stdout,
            stderr |-> Bash(@.ran).stderr, exit |-> Bash(@.ran).exit]]
    /\ UNCHANGED <<build, pc, req, tmpfile, handle, fs, resp, sent>>
    /\ UNCHANGED termVars

CmdWait_NoWait(r) ==
    /\ pc[r] = "wait"
    /\ JSON(r, StatusOK,
            RunFailedResponse(build, child[r].exit, child[r].stdout, child[r].stderr))
    /\ pc' = [pc EXCEPT ![r] = "return"]
    /\ UNCHANGED <<build, req, tmpfile, handle, fs, child>>
    /\ UNCHANGED termVars

(* cmd.Run(), second half: Wait returns once the child has terminated and *)
(* reaps it; err is nil exactly for exit status 0                         *)
CmdWait(r) ==
    /\ pc[r] = "wait"
    /\ child[r].state = "exited"
    /\ child' = [child EXCEPT ![r].state = "reaped"]
    /\ IF child[r].exit # "exit status 0"
       THEN JSON(r, StatusOK,
                 RunFailedResponse(build, child[r].exit, child[r].stdout, child[r].stderr))
       ELSE JSON(r, StatusOK, RunOkResponse(child[r].stdout))
    /\ pc' = [pc EXCEPT ![r] = "return"]
    /\ UNCHANGED <<build, req, tmpfile, handle, fs>>
    /\ UNCHANGED termVars

(* the handler returns: the deferred os.Remove runs, if one was            *)
(* registered, and the handler's locals are gone                           *)
Return(r) ==
    /\ pc[r] = "return"
    /\ fs' = IF Deferred(r) THEN Remove(tmpfile[r]) ELSE fs
    /\ tmpfile' = [tmpfile EXCEPT ![r] = NoName]
    /\ pc' = [pc EXCEPT ![r] = "done"]
    /\ UNCHANGED <<build, req, handle, child, resp, sent>>
    /\ UNCHANGED termVars

ExecNext ==
    \E r \in Requests :
        \/ Receive(r)
        \/ Bind(r)
        \/ CreateTemp(r)
        \/ Write(r)
        \/ Close(r)
        \/ Chmod(r)
        \/ CmdStart(r)
        \/ ChildExit(r)
        \/ CmdWait(r)
        \/ Return(r)

(* the server of src/script-copilot/backend/main.go *)
ExecInit == ExecInitOf("gemini")
ExecSpec == ExecInit /\ [][ExecNext]_vars

(* the server of the second copy, src/script-copilot/frontend/src/App.tsx:63 *)
ExecCopyInit == ExecInitOf("anthropic")
ExecCopySpec == ExecCopyInit /\ [][ExecNext]_vars

(* the same server under fair scheduling: a handler that can take its     *)
(* next step takes it (each request runs on a goroutine of its own).     *)
(* Nothing makes a request arrive, and nothing makes a child terminate.   *)
HandlerStep(r) ==
    \/ Bind(r)
    \/ CreateTemp(r)
    \/ Write(r)
    \/ Close(r)
    \/ Chmod(r)
    \/ CmdStart(r)
    \/ CmdWait(r)
    \/ Return(r)

(* the requests have arrived: one body without a script or one with a    *)
(* script each                                                            *)
FairBodies == {NoScript, WithScript(ScriptFail)}

ExecFairInit ==
    /\ TermStart
    /\ build = "gemini"
    /\ pc = [r \in Requests |-> "bind"]
    /\ req \in [Requests -> FairBodies]
    /\ tmpfile = [r \in Requests |-> NoName]
    /\ handle = [r \in Requests |-> FALSE]
    /\ fs = [n \in TempNames |-> NoFile]
    /\ child = [r \in Requests |-> NoChild]
    /\ resp = [r \in Requests |-> NoResp]
    /\ sent = [r \in Requests |-> 0]

ExecFairNext == \E r \in Requests : HandlerStep(r) \/ ChildExit(r)

ExecFairSpec ==
    ExecFairInit /\ [][ExecFairNext]_vars /\ \A r \in Requests : WF_vars(HandlerStep(r))

(* the terminal session, no request in flight *)
TermInit == ExecInitOf("gemini")
TermSpec == TermInit /\ [][TermNext]_vars

(* the terminal session fed distinct commands *)
HistSpec == TermInit /\ [][HistNext]_vars

ShellSpec == TermInit /\ [][ShellNext]_vars

PersistSpec == TermInit /\ [][PersistNext]_vars

TokenSpec == TermInit /\ [][TokenNext]_vars

(* a session that starts over the list an earlier session left, one entry *)
(* short of the limit                                                     *)
CursorInit ==
    /\ TermStartFrom(JSONStringify(SavedHistory))
    /\ build = "gemini"
    /\ pc = [r \in Requests |-> "idle"]
    /\ req = [r \in Requests |-> Malformed]
    /\ tmpfile = [r \in Requests |-> NoName]
    /\ handle = [r \in Requests |-> FALSE]
    /\ fs = [n \in TempNames |-> NoFile]
    /\ child = [r \in Requests |-> NoChild]
    /\ resp = [r \in Requests |-> NoResp]
    /\ sent = [r \in Requests |-> 0]

CursorSpec == CursorInit /\ [][CursorNext]_vars

-----------------------------------------------------------------------------
(* Claims about the execute endpoint *)

InFlight(r) == pc[r] \in {"write", "close", "chmod", "run", "wait", "return"}
Answered(r) == pc[r] \in {"return", "done"}
Spawned(r) == child[r].state \in {"running", "exited", "reaped"}

(* part occurs in text as a run of consecutive chunks *)
Contains(text, part) ==
    \E i \in 1..(Len(text) - Len(part) + 1) : SubSeq(text, i, i + Len(part) - 1) = part

(* C1: a temporary file exists only while the handler that created it is  *)
(* between os.CreateTemp and its return; once a handler has returned, on   *)
(* whatever path, the file it created is gone.                             *)
C1_TempFileRemoved ==
    \A n \in TempNames :
        fs[n].exists => \E r \in Requests : InFlight(r) /\ tmpfile[r] = n

(* all handlers have returned, one after its child was killed and one     *)
(* after os.Chmod failed, and the directory is empty                       *)
C1_Witness ==
    /\ \A r \in Requests : pc[r] = "done"
    /\ \E r \in Requests : child[r].state = "reaped" /\ child[r].exit = "signal: killed"
    /\ \E r \in Requests : resp[r].body = ginH("Failed to make script executable")
    /\ \A n \in TempNames : ~fs[n].exists

(* C2: a child that exits non-zero or is killed yields success=false, the  *)
(* stdout it wrote in the output member, and an error member holding the   *)
(* stderr it wrote and the diagnostic of its termination.                  *)
C2_FailureKeepsStdout ==
    \A r \in Requests :
        (Answered(r) /\ child[r].state = "reaped" /\ child[r].exit # "exit status 0") =>
            /\ resp[r].status = StatusOK
            /\ Member(resp[r].body, "success") = <<"false">>
            /\ Member(resp[r].body, "output") = Bash(req[r].script).stdout
            /\ Contains(Member(resp[r].body, "error"), <<child[r].exit>>)
            /\ Contains(Member(resp[r].body, "error"), Bash(req[r].script).stderr)

(* C3: a child that exits with status 0 yields success=true, output equal  *)
(* to what the request's script writes to stdout, and no error member,     *)
(* whatever it wrote to stderr.                                            *)
C3_SuccessResult ==
    \A r \in Requests :
        (Answered(r) /\ child[r].state = "reaped" /\ child[r].exit = "exit status 0") =>
            /\ resp[r].status = StatusOK
            /\ Member(resp[r].body, "success") = <<"true">>
            /\ Member(resp[r].body, "output") = Bash(req[r].script).stdout
            /\ "error" \notin DOMAIN resp[r].body

(* a script that wrote to both streams and exited 0 has been answered *)
C3_Witness ==
    \E r \in Requests :
        /\ pc[r] = "done"
        /\ child[r].state = "reaped"
        /\ child[r].exit = "exit status 0"
        /\ child[r].stderr # <<>>
        /\ resp[r].body["output"] = <<"out\n">>

(* C4: the answer is HTTP 200 exactly when a child ran and terminated (a   *)
(* script-level outcome); every failure of the pipeline itself, and every  *)
(* bad request, is answered with a non-2xx status.                         *)
C4_StatusTellsFaultKind ==
    \A r \in Requests :
        Answered(r) => (resp[r].status = StatusOK <=> child[r].state = "reaped")

(* C5: a request whose script is empty or missing is answered 400 and the  *)
(* handler never creates a temporary file nor spawns a child for it.       *)
C5_EmptyScriptRejected ==
    \A r \in Requests :
        (pc[r] \notin {"idle", "bind"} /\ req[r].script = <<>>) =>
            /\ Answered(r)
            /\ resp[r].status = StatusBadRequest
            /\ tmpfile[r] = NoName
            /\ child[r] = NoChild

(* an empty script and a missing script have both been rejected *)
C5_Witness ==
    /\ \E r \in Requests : pc[r] = "done" /\ req[r] = WithScript(<<>>)
    /\ \E r \in Requests : pc[r] = "done" /\ req[r] = NoScript

(* C6: two requests in flight never hold the same temporary file; from the *)
(* write to the spawn a request's file exists and holds its own script;    *)
(* every child runs the script text of its own request.                    *)
C6_NoSharedTempFile ==
    /\ \A r1, r2 \in Requests :
           (r1 # r2 /\ tmpfile[r1] # NoName) => tmpfile[r1] # tmpfile[r2]
    /\ \A r \in Requests :
           pc[r] \in {"write", "close", "chmod", "run"} => fs[tmpfile[r]].exists
    /\ \A r \in Requests :
           pc[r] \in {"close", "chmod", "run"} => fs[tmpfile[r]].content = req[r].script
    /\ \A r \in Requests : Spawned(r) => child[r].ran = req[r].script

(* two requests with different scripts are in flight at once, one about to *)
(* spawn its child while the other's child is running                      *)
C6_Witness ==
    \E r1, r2 \in Requests :
        /\ pc[r1] = "run"
        /\ pc[r2] = "wait"
        /\ child[r2].state = "running"
        /\ req[r1].script # req[r2].script

-----------------------------------------------------------------------------
(* Claims about the terminal session *)

(* C7: after n distinct non-empty commands the history holds the           *)
(* min(n, 50) most recent ones, trimmed, newest first.                     *)
C7_LastFiftyNewestFirst ==
    history = [i \in 1..Min(submissions, HISTORY_LIMIT) |-> Cmd(submissions + 1 - i)]

(* C8: the history changes only when a non-empty line is submitted, and    *)
(* then by that line being put in front of what was there, in the order it *)
(* was in: no built-in, key or injected output reorders it.                *)
C8_OnlySubmissionPrepends ==
    [][history' # history =>
          /\ Trim(currentInput) # <<>>
          /\ history' = Slice0(<<Trim(currentInput)>> \o history, HISTORY_LIMIT)]_vars

(* C9: the submission of `history` appends, just before the new prompt,    *)
(* an output line listing the history as it is after that submission, one  *)
(* command per line, the oldest first.                                     *)
C9_HistoryListsAfterPrepend ==
    [][(submissions' = submissions + 1 /\ Trim(currentInput) = HISTORY) =>
          /\ Len(lines') >= 2
          /\ lines'[Len(lines') - 1] = OutputLine(Join(Reverse(history'), <<"\n">>))]_vars

(* texts that only typing puts into the input: a recalled entry is         *)
(* trimmed, a completion is a command name                                 *)
TypedOnly == {v \in TermInputs : Trim(v) # v}

(* the step recalled an entry of the history into the input *)
Recall ==
    /\ historyIndex' # historyIndex
    /\ historyIndex' >= 0
    /\ currentInput' = history[historyIndex' + 1]

(* C10, as claimed: a step that types into the input resets the cursor to  *)
(* none.                                                                   *)
C10_EditResetsCursor ==
    [][(currentInput' \in TermInputs /\ currentInput' # currentInput /\ ~Recall) =>
          historyIndex' = 0 - 1]_vars

(* C10, amended: a step that types into the input leaves the cursor and    *)
(* the history as they were, and an Up-arrow pressed on an edited input    *)
(* moves on from the cursor's position: it recalls the entry one older     *)
(* than the cursor's, not the most recent one.                             *)
C10_EditKeepsCursor ==
    [][/\ (currentInput' \in TermInputs /\ currentInput' # currentInput /\ ~Recall) =>
             (historyIndex' = historyIndex /\ history' = history)
       /\ (currentInput \in TypedOnly /\ currentInput' # currentInput
              /\ historyIndex' > historyIndex) =>
             (historyIndex' = historyIndex + 1
                 /\ currentInput' = history[historyIndex + 2])]_vars

(* the input was edited while the cursor was on an entry that is not the   *)
(* oldest, and the cursor is still there                                   *)
C10_Witness ==
    /\ currentInput \in TypedOnly
    /\ historyIndex >= 0
    /\ historyIndex < Len(history) - 1

-----------------------------------------------------------------------------
(* Claims about the transcript *)

(* the step is the submission of a non-empty line *)
Submitted == submissions' = submissions + 1

(* the first token of a line, as executeCommand takes it *)
FirstToken(t) == Head(Split(Trim(t)))

(* the echo of the line being submitted *)
Echo == InputLine(workingDirectory \o <<" $ ">> \o currentInput)

Prefix(a, b) == Len(a) <= Len(b) /\ SubSeq(b, 1, Len(a)) = a

(* the step clears the transcript: the ref's clear(), the shortcut, or    *)
(* the submission of `clear`                                              *)
ClearStep == clear \/ CtrlL \/ (Submitted /\ FirstToken(currentInput) = CLEAR)

(* C11: the submission of `clear` leaves the transcript as the clear       *)
(* shortcut does: one empty prompt line and nothing else.                  *)
C11_ClearLikeShortcut ==
    [][(Submitted /\ FirstToken(currentInput) = CLEAR) =>
          /\ lines' = <<PromptLine>>
          /\ lines' = executeCommand(CLEAR, lines).lines]_vars

(* C12: every step that is not a clear leaves the transcript a prefix of   *)
(* the new one, and a submission appends the echo of the line, then the    *)
(* one output line of the built-in or of the callback if there is one,     *)
(* then the prompt.                                                        *)
C12_AppendOnlyInOrder ==
    [][/\ ~ClearStep => Prefix(lines, lines')
       /\ (Submitted /\ FirstToken(currentInput) # CLEAR) =>
             LET added == SubSeq(lines', Len(lines) + 1, Len(lines'))
                 token == FirstToken(currentInput)
             IN  /\ Len(added) \in {2, 3}
                 /\ added[1] = Echo
                 /\ added[Len(added)] = PromptLine
                 /\ Len(added) = 3 => added[2].type = "output"
                 /\ token = HELP => added = <<Echo, OutputLine(HelpText), PromptLine>>
                 /\ token = PWD =>
                        added = <<Echo, OutputLine(workingDirectory), PromptLine>>
                 /\ token = CD => added = <<Echo, PromptLine>>
                 /\ Find({token}) = <<>> =>
                        added = <<Echo,
                                  OutputLine(<<"Executing: ">> \o Trim(currentInput)
                                                 \o <<"\n">>),
                                  PromptLine>>]_vars

(* a built-in has answered after the callback had *)
C12_Witness ==
    /\ executed # <<>>
    /\ lines = <<PromptLine, InputLine(Tilde \o <<" $ ">> \o HELP), OutputLine(HelpText),
                 PromptLine>>

(* C13: addOutput appends one line with the text and the kind it is given  *)
(* at the end of the transcript, whatever the state, and leaves the input, *)
(* the cursor, the working directory and the history as they were.         *)
C13_AddOutputAppendsOnly ==
    [][Inject =>
          /\ \E t \in {"output", "error"} :
                 lines' = lines \o <<[content |-> ScriptOutput, type |-> t]>>
          /\ UNCHANGED <<currentInput, historyIndex, workingDirectory, history>>]_vars

(* a line was injected while an entry of the history was being edited *)
C13_Witness ==
    /\ historyIndex >= 0
    /\ currentInput # <<>>
    /\ currentInput # history[historyIndex + 1]
    /\ Len(lines) > 2
    /\ lines[Len(lines)].content = ScriptOutput
    /\ lines[Len(lines)].type = "error"

-----------------------------------------------------------------------------
(* Claims about the working directory *)

(* C14: the submission of `cd d` makes d the working directory and adds    *)
(* no output line, `cd` alone makes it `~`, nothing else changes it, and   *)
(* the submission of `pwd` adds one output line with exactly the working   *)
(* directory: `cd d` and then `pwd` shows d.                               *)
C14_PwdShowsLastCd ==
    [][/\ \A d \in Dirs :
              (Submitted /\ Trim(currentInput) = CD \o <<" ">> \o d) =>
                  /\ workingDirectory' = d
                  /\ lines' = lines \o <<Echo, PromptLine>>
       /\ (Submitted /\ Trim(currentInput) = CD) =>
              /\ workingDirectory' = <<"~">>
              /\ lines' = lines \o <<Echo, PromptLine>>
       /\ (Submitted /\ Trim(currentInput) = PWD) =>
              lines' = lines \o <<Echo, OutputLine(workingDirectory), PromptLine>>
       /\ ~(Submitted /\ FirstToken(currentInput) = CD) =>
              workingDirectory' = workingDirectory]_vars

(* `pwd` has answered /tmp, and not from the directory of the start *)
C14_Witness ==
    /\ workingDirectory = Tmp
    /\ lines = <<PromptLine, InputLine(Tmp \o <<" $ ">> \o PWD), OutputLine(Tmp), PromptLine>>

-----------------------------------------------------------------------------
(* Claims about the keys *)

(* the text is empty or made of white space only *)
Blank(t) == \A i \in 1..Len(t) : IsSpace(t[i])

(* C15: Enter on an empty or blank input changes nothing: not the          *)
(* transcript, the history, the cursor or the working directory, and the   *)
(* callback is not called.                                                 *)
C15_BlankSubmitNoOp ==
    Blank(currentInput) => ~ENABLED <<Enter>>_vars

(* a blank line is in the input of a session that has a transcript, a      *)
(* history and a cursor to lose                                            *)
C15_Witness ==
    /\ currentInput = <<" ">>
    /\ historyIndex >= 0
    /\ Len(lines) > 2
    /\ executed # <<>>

(* C16: Up-arrow moves the cursor one position toward the older end and    *)
(* puts the entry there into the input; with an empty history, or with the *)
(* cursor on the oldest entry, it changes neither the input nor the        *)
(* cursor.                                                                 *)
C16_ArrowUpStepsOlder ==
    IF history = <<>> \/ historyIndex = Len(history) - 1
    THEN ~ENABLED <<ArrowUp>>_vars
    ELSE /\ ENABLED <<ArrowUp>>_vars
         /\ ~ENABLED (ArrowUp /\ ~(/\ historyIndex' = historyIndex + 1
                                   /\ currentInput' = history[historyIndex + 2]))

(* the cursor has been taken to the oldest of several entries *)
C16_Witness ==
    /\ Len(history) >= 2
    /\ historyIndex = Len(history) - 1
    /\ currentInput = history[Len(history)]

(* k presses of Up-arrow, of Down-arrow, from a cursor and an input *)
RECURSIVE Ups(_, _)
Ups(k, s) == IF k = 0 THEN s ELSE Ups(k - 1, onArrowUp(s.historyIndex, s.currentInput))

RECURSIVE Downs(_, _)
Downs(k, s) == IF k = 0 THEN s ELSE Downs(k - 1, onArrowDown(s.historyIndex, s.currentInput))

(* C17: Down-arrow at index i > 0 moves the cursor to i - 1 and puts that  *)
(* entry into the input, at index 0 it sets the cursor to none and empties *)
(* the input, at none it changes nothing; so from the cursor at none, k    *)
(* Up-arrows and then k Down-arrows end at none with an empty input.       *)
C17_ArrowDownStepsNewer ==
    /\ historyIndex > 0 =>
           /\ ENABLED <<ArrowDown>>_vars
           /\ ~ENABLED (ArrowDown /\ ~(/\ historyIndex' = historyIndex - 1
                                       /\ currentInput' = history[historyIndex]))
    /\ historyIndex = 0 =>
           /\ ENABLED <<ArrowDown>>_vars
           /\ ~ENABLED (ArrowDown /\ ~(/\ historyIndex' = 0 - 1
                                       /\ currentInput' = <<>>))
    /\ historyIndex = 0 - 1 =>
           /\ ~ENABLED <<ArrowDown>>_vars
           /\ \A k \in 1..Len(history) :
                  Downs(k, Ups(k, [historyIndex |-> historyIndex,
                                   currentInput |-> currentInput]))
                      = [historyIndex |-> 0 - 1, currentInput |-> <<>>]

(* the cursor stands between the newest and the oldest of three entries,   *)
(* on the entry it shows                                                   *)
C17_Witness ==
    /\ Len(history) = 3
    /\ historyIndex = 1
    /\ currentInput = history[2]

-----------------------------------------------------------------------------
(* Claims about the dispatch of a submitted line *)

(* C18: every submission of a non-empty line, whatever it is dispatched    *)
(* to, leaves the input empty and the cursor at none.                      *)
C18_SubmitReturnsToIdle ==
    [][Submitted => (currentInput' = <<>> /\ historyIndex' = 0 - 1)]_vars

(* a recalled entry was submitted again, after a line for the callback *)
C18_Witness ==
    /\ submissions = 2
    /\ Len(history) = 2
    /\ history[1] = history[2]
    /\ executed = <<history[1], history[1]>>
    /\ currentInput = <<>>
    /\ historyIndex = 0 - 1

(* the names the dispatch resolves locally *)
BuiltIns == {<<"c", "l", "e", "a", "r">>, <<"h", "e", "l", "p">>, <<"p", "w", "d">>,
             <<"c", "d">>, <<"h", "i", "s", "t", "o", "r", "y">>}

(* C19: the submission of a line whose first token is not a built-in calls *)
(* the callback once, with the whole trimmed line; the submission of a     *)
(* built-in, the clear shortcut and every other step do not call it.       *)
C19_CallbackOncePerForeignLine ==
    [][/\ (Submitted /\ FirstToken(currentInput) \notin BuiltIns) =>
              executed' = executed \o <<Trim(currentInput)>>
       /\ (Submitted /\ FirstToken(currentInput) \in BuiltIns) => executed' = executed
       /\ ~Submitted => executed' = executed]_vars

(* a built-in and a line of two tokens were submitted: one call *)
C19_Witness ==
    /\ submissions = 2
    /\ executed = <<Trim(LsL)>>
    /\ \E i \in 1..Len(history) : history[i] \in BuiltIns

(* the text is a prefix of the name, letter case aside *)
PrefixOfName(text, name) ==
    /\ Len(text) <= Len(name)
    /\ \A i \in 1..Len(text) : LowerChar(text[i]) = name[i]

(* the name Tab completes the text to: the first of the table, in the     *)
(* order clear, help, pwd, cd, history, that the text is a prefix of      *)
Completion(text) ==
    LET table == <<<<"c", "l", "e", "a", "r">>, <<"h", "e", "l", "p">>, <<"p", "w", "d">>,
                   <<"c", "d">>, <<"h", "i", "s", "t", "o", "r", "y">>>>
        hits == {i \in 1..Len(table) : PrefixOfName(text, table[i])}
    IN  IF hits = {} THEN text
        ELSE table[CHOOSE i \in hits : \A j \in hits : i <= j]

(* C20: Tab puts the completion of the input into the input, or leaves it  *)
(* when no name matches, changes neither the transcript nor the history    *)
(* nor the working directory, and a second Tab changes nothing more.       *)
C20_TabCompletesFirstMatch ==
    /\ ~ENABLED (Tab /\ ~(/\ currentInput' = Completion(currentInput)
                          /\ UNCHANGED <<lines, history, workingDirectory>>))
    /\ onTab(onTab(currentInput)) = onTab(currentInput)

(* `history` is in the input of a session that never submitted it: it was *)
(* completed from Hi                                                      *)
C20_Witness ==
    /\ currentInput = HISTORY
    /\ history = <<>>

-----------------------------------------------------------------------------
(* Claims about the persisted history *)

-----------------------------------------------------------------------------
(* Claims about what a submission shows *)

(* C22, as claimed: every submission adds, after the echo of the line, an  *)
(* output or error line, and then the prompt.                              *)
C22_AlwaysShowsSomething ==
    [][Submitted =>
          /\ Len(lines') >= 3
          /\ lines'[Len(lines') - 2] = Echo
          /\ lines'[Len(lines') - 1].type \in {"output", "error"}
          /\ lines'[Len(lines')] = PromptLine]_vars

(* C22, amended: every submission leaves the prompt as the last line.      *)
(* `help`, `pwd` and a line that is no built-in add the echo, one output   *)
(* line that is not empty, and the prompt; so does `history` when the      *)
(* history held a command before it.  `cd`, and `history` on an empty      *)
(* history, add the echo and the prompt only; `clear` leaves two prompts.  *)
C22_ShowsOutputUnlessSilent ==
    [][Submitted =>
          LET token == FirstToken(currentInput)
              silent == \/ token = CD
                        \/ token = HISTORY /\ history = <<>>
              n == Len(lines)
          IN  /\ lines'[Len(lines')] = PromptLine
              /\ token = CLEAR => lines' = <<PromptLine, PromptLine>>
              /\ silent => lines' = lines \o <<Echo, PromptLine>>
              /\ (token # CLEAR /\ ~silent) =>
                     /\ Len(lines') = n + 3
                     /\ SubSeq(lines', 1, n) = lines
                     /\ lines'[n + 1] = Echo
                     /\ lines'[n + 2].type = "output"
                     /\ lines'[n + 2].content # <<>>]_vars

(* `cd /tmp` was answered by the prompt alone *)
C22_Witness ==
    /\ workingDirectory = Tmp
    /\ lines = <<WelcomeLine, PromptLine, InputLine(Tilde \o <<" $ ">> \o CdTo(Tmp)),
                 PromptLine>>

(* the transcript is one prompt line and the rest of the session is as it  *)
(* was                                                                     *)
ClearedOnly ==
    /\ lines' = <<[content |-> <<"$ ">>, type |-> "input"]>>
    /\ UNCHANGED <<currentInput, historyIndex, workingDirectory, history>>

(* C23: the clear shortcut and the ref's clear() each leave the transcript *)
(* with exactly one prompt line, from any state, and change neither the    *)
(* input, the cursor, the working directory nor the history.               *)
C23_ClearResetsTranscriptOnly ==
    /\ ~ENABLED (CtrlL /\ ~ClearedOnly)
    /\ ~ENABLED (clear /\ ~ClearedOnly)
    /\ Len(lines) > 1 => (ENABLED <<CtrlL>>_vars /\ ENABLED <<clear>>_vars)

(* the transcript was cleared under an input being edited on a recalled    *)
(* entry                                                                   *)
C23_Witness ==
    /\ lines = <<PromptLine>>
    /\ historyIndex >= 0
    /\ currentInput # <<>>
    /\ currentInput # history[historyIndex + 1]
    /\ submissions > 0

-----------------------------------------------------------------------------
(* Claims about the steps of one execute request *)

(* the temporary file of the request holds the whole script *)
Written(r) == tmpfile[r] # NoName /\ fs[tmpfile[r]].content = req[r].script

(* the temporary file of the request is executable *)
Executable(r) == tmpfile[r] # NoName /\ fs[tmpfile[r]].mode = 493

(* C24: within a request the file is created, written whole, closed, made  *)
(* executable and only then run: the permission is not changed while the   *)
(* handle is open, a child exists only after the four steps, and after a   *)
(* step has failed no later step is made and no child exists.              *)
C24_StepsInOrder ==
    \A r \in Requests :
        /\ handle[r] => (tmpfile[r] # NoName /\ ~Executable(r) /\ ~Spawned(r))
        /\ Executable(r) => (Written(r) /\ ~handle[r])
        /\ pc[r] = "wait" => (Spawned(r) /\ Written(r) /\ Executable(r))
        /\ Spawned(r) => (child[r].ran = req[r].script /\ ~handle[r])
        /\ resp[r].status = 500 =>
               /\ child[r] = NoChild
               /\ pc[r] \in {"return", "done"}
               /\ ~Executable(r)
        /\ resp[r].body = ginH("Failed to write script to file") => ~Written(r)

(* one request runs its child after the four steps, another has stopped    *)
(* at the permission change                                                *)
C24_Witness ==
    \E r, q \in Requests :
        /\ pc[r] = "wait"
        /\ child[r].state = "running"
        /\ resp[q].body = ginH("Failed to make script executable")
        /\ pc[q] = "return"

(* the request has its one response, and no child of it is left running   *)
(* or unreaped                                                            *)
RespondedOnce(r) ==
    /\ sent[r] = 1
    /\ resp[r] # NoResp
    /\ child[r].state \in {"none", "nostart", "reaped"}

(* C25: a request is answered exactly once on every path: never twice,     *)
(* not before its handler is about to return, and always by then; a child  *)
(* is started only for a request that never had one; and the answer is     *)
(* sent only when the child, if there is one, has terminated and been      *)
(* reaped.                                                                 *)
C25_OneResponseAfterChild ==
    [][\A r \in Requests :
          /\ sent'[r] <= 1
          /\ (sent'[r] = 0) = (resp'[r] = NoResp)
          /\ (pc'[r] \in {"return", "done"}) = (sent'[r] = 1)
          /\ sent'[r] = 1 => child'[r].state \in {"none", "nostart", "reaped"}
          /\ (child'[r].state = "running" /\ child[r].state # "running") =>
                 child[r] = NoChild
          /\ (sent'[r] = 1 /\ sent[r] = 0 /\ child[r] # NoChild) =>
                 (child[r].state = "exited" /\ child'[r].state = "reaped")]_vars

(* every request is answered once: one after its child was reaped, one     *)
(* without a child                                                         *)
C25_Witness ==
    /\ \A r \in Requests : pc[r] = "done" /\ RespondedOnce(r)
    /\ \E r \in Requests : child[r].state = "reaped"
    /\ \E r \in Requests : child[r] = NoChild /\ resp[r].status = 400

(* the request is complete: answered, returned, and every temporary file  *)
(* that exists is the file of another request                             *)
Completed(r) ==
    /\ pc[r] = "done"
    /\ sent[r] = 1
    /\ \A n \in TempNames : fs[n].exists => \E q \in Requests \ {r} : tmpfile[q] = n

(* C26: under fair scheduling a request whose child has terminated, and a  *)
(* request that has no child to wait for, is completed in the end, with    *)
(* its answer sent and its file removed; a request is never completed, nor *)
(* answered, while its child runs: the handler waits without a timeout.    *)
C26_CompletesIffChildTerminates ==
    /\ \A r \in Requests : (child[r].state = "exited") ~> Completed(r)
    /\ \A r \in Requests :
           (pc[r] # "idle") ~> (Completed(r) \/ child[r].state = "running")
    /\ [](\A r \in Requests :
              child[r].state = "running" => (pc[r] = "wait" /\ sent[r] = 0))

(* one request is complete after its child terminated while the other     *)
(* still waits for its child                                              *)
C26_Witness ==
    \E r, q \in Requests :
        /\ Completed(r)
        /\ child[r].state = "reaped"
        /\ pc[q] = "wait"
        /\ child[q].state = "running"

-----------------------------------------------------------------------------
(* Claims about the tokens of a line *)

(* the tokens of a text: its longest runs of characters that are not      *)
(* white space                                                            *)
RECURSIVE Tokens(_)
Tokens(t) ==
    IF t = <<>> THEN <<>>
    ELSE IF IsSpace(Head(t)) THEN Tokens(Tail(t))
    ELSE LET ends == {i \in 1..Len(t) : IsSpace(t[i])}
             n == IF ends = {} THEN Len(t)
                  ELSE (CHOOSE i \in ends : \A j \in ends : i <= j) - 1
         IN  <<SubSeq(t, 1, n)>> \o Tokens(SubSeq(t, n + 1, Len(t)))

(* C27: a submitted line whose first token is the name of a built-in goes  *)
(* to that built-in, not to the callback, however its tokens are           *)
(* separated; `cd` makes the token after it the working directory, and     *)
(* `~` only when there is none.                                            *)
C27_WhitespaceTokens ==
    [][Submitted =>
          LET tokens == Tokens(currentInput)
          IN  /\ tokens[1] \in BuiltIns => executed' = executed
              /\ tokens[1] = CD =>
                     workingDirectory' = IF Len(tokens) >= 2 THEN tokens[2] ELSE <<"~">>]_vars

-----------------------------------------------------------------------------
(* Claims about the cursor *)

(* C28: the cursor is none or the index of an entry of the history, and    *)
(* the history has at most 50 entries, whatever keys, submissions, clears  *)
(* and injected lines came before.                                         *)
C28_CursorInsideHistory ==
    /\ historyIndex = 0 - 1 \/ (0 <= historyIndex /\ historyIndex < Len(history))
    /\ Len(history) <= 50

(* the history has overflowed and the cursor was taken to its last entry,  *)
(* under a transcript that was cleared and injected into                   *)
C28_Witness ==
    /\ submissions >= 2
    /\ Len(history) = 50
    /\ historyIndex = 49
    /\ currentInput = history[50]
    /\ lines[1] = PromptLine
    /\ lines[Len(lines)].content = ScriptOutput

=============================================================================
